---- MODULE Spec2Model ----
(***************************************************************************)
(* MinSmallVec<T, S> (src/src/lib.rs): a SmallVec<[T; S]> together with a  *)
(* raw pointer `min` to the element holding the minimum value.             *)
(*                                                                         *)
(* The pointer is modelled by its provenance and an offset: it was derived *)
(* from the container's current element storage ("inner"), from a storage  *)
(* the elements have since left ("freed"), or from a caller's slice        *)
(* ("slice").  The element storage is left behind when the SmallVec grows  *)
(* (inline -> heap, or a heap reallocation that moves) and when a          *)
(* container whose elements are inline is moved.  Reading through a        *)
(* pointer that does not designate a live slot of the current storage      *)
(* yields any value of T.                                                  *)
(***************************************************************************)
EXTENDS Integers, Sequences, FiniteSets, TLC

VARIABLES elemType, inner, cap, min, call, other, res

vars == <<elemType, inner, cap, min, call, other, res>>

(* ------------------------------ bounds -------------------------------- *)

\* longest element sequence explored
MaxLen == 3

\* largest plain number used as an element value
MaxVal == 2

\* the inline capacity S of SmallVec<[T; S]> (a type parameter)
S == 1

(* --------------------------- element types ---------------------------- *)

\* T = i32: a total order.  T = f64: partial, NaN is incomparable with
\* everything, itself included, and f64 is not Eq.  T = div: the numbers
\* >= 2 ordered by divisibility, a partial order that is also Eq.
ElemTypes == {"i32", "f64", "div"}

EqTypes == {"i32", "div"}

\* f64 values are the plain numbers below MaxVal and NaN, encoded as MaxVal
NaN == MaxVal

Values(t) ==
    CASE t = "i32" -> 0..MaxVal
      [] t = "f64" -> (0..(MaxVal - 1)) \cup {NaN}
      [] t = "div" -> 2..(MaxVal + 2)

\* <T as PartialOrd>::partial_cmp: "None" when the pair is incomparable
T_partial_cmp(t, a, b) ==
    CASE t = "i32" -> IF a < b THEN "Less" ELSE IF a = b THEN "Equal" ELSE "Greater"
      [] t = "f64" -> IF a = NaN \/ b = NaN THEN "None"
                      ELSE IF a < b THEN "Less" ELSE IF a = b THEN "Equal" ELSE "Greater"
      [] t = "div" -> IF a = b THEN "Equal"
                      ELSE IF b % a = 0 THEN "Less"
                      ELSE IF a % b = 0 THEN "Greater"
                      ELSE "None"

\* <T as PartialEq>::eq
T_eq(t, a, b) == T_partial_cmp(t, a, b) = "Equal"

\* the operator < of PartialOrd: partial_cmp is Some(Less)
T_lt(t, a, b) == T_partial_cmp(t, a, b) = "Less"

(* ------------------------------ pointers ------------------------------ *)

\* Option<NonNull<T>>: None, or a pointer derived from the storage `to` at
\* offset off
None == [some |-> FALSE, to |-> "inner", off |-> 0]

Some(to, o) == [some |-> TRUE, to |-> to, off |-> o]

\* whether pointer p designates a live slot of the current storage, which
\* holds s
PointsInto(p, s) == p.some /\ p.to = "inner" /\ p.off < Len(s)

\* ptr.as_ref() followed by a read: the designated element, or any value of
\* T when the pointer does not designate a live slot
Deref(t, p, s) == IF PointsInto(p, s) THEN {s[p.off + 1]} ELSE Values(t)

\* The same pointer once the element storage has moved away under it: it
\* designates freed storage, where its offset no longer means anything.
Left(p, moved) ==
    IF moved /\ p.some /\ p.to = "inner" THEN Some("freed", 0) ELSE p

(* ------------------------- SmallVec collaborator ---------------------- *)

RECURSIVE pow2_from(_, _)
pow2_from(p, n) == IF p >= n THEN p ELSE pow2_from(2 * p, n)

\* usize::next_power_of_two
next_power_of_two(n) == pow2_from(1, n)

\* SmallVec::spilled: the elements are on the heap
spilled(c) == c > S

\* What appending one element to a SmallVec of capacity c holding n
\* elements does to its storage: nothing while there is room; otherwise it
\* grows to the next power of two, which moves inline elements to a fresh
\* heap block and reallocates a heap block (in place or not, as the
\* allocator decides).
GrowOnPush(c, n) ==
    IF n < c THEN {[cap |-> c, moved |-> FALSE]}
    ELSE {[cap |-> next_power_of_two(n + 1), moved |-> m] :
             m \in IF spilled(c) THEN BOOLEAN ELSE {TRUE}}

(* --------------------------- full recomputation ----------------------- *)

\* The try_fold of slice_min over s[k..], c the index of the running
\* candidate: 0 when a comparison is undefined, else the final candidate.
RECURSIVE try_fold(_, _, _, _)
try_fold(t, s, k, c) ==
    IF k > Len(s) THEN c
    ELSE LET ord == T_partial_cmp(t, s[c], s[k])
         IN  IF ord = "None" THEN 0
             ELSE try_fold(t, s, k + 1, IF ord = "Greater" THEN k ELSE c)

\* a fold that skips an undefined comparison instead of giving up
RECURSIVE fold_skipping(_, _, _, _)
fold_skipping(t, s, k, c) ==
    IF k > Len(s) THEN c
    ELSE fold_skipping(t, s, k + 1,
                       IF T_partial_cmp(t, s[c], s[k]) = "Greater" THEN k ELSE c)

slice_min_skips_undefined(t, s, to) ==
    IF s = <<>> THEN None ELSE Some(to, fold_skipping(t, s, 2, 1) - 1)

\* a fold that also replaces the candidate on an equal element
RECURSIVE fold_taking_later(_, _, _, _)
fold_taking_later(t, s, k, c) ==
    IF k > Len(s) THEN c
    ELSE LET ord == T_partial_cmp(t, s[c], s[k])
         IN  IF ord = "None" THEN 0
             ELSE fold_taking_later(t, s, k + 1,
                                    IF ord \in {"Greater", "Equal"} THEN k ELSE c)

slice_min_takes_later(t, s, to) ==
    IF s = <<>> THEN None
    ELSE LET i == fold_taking_later(t, s, 2, 1)
         IN  IF i = 0 THEN None ELSE Some(to, i - 1)

\* slice_min over the slice s, which lives in the storage `to`
slice_min(t, s, to) ==
    IF s = <<>> THEN None
    ELSE LET i == try_fold(t, s, 2, 1)
         IN  IF i = 0 THEN None ELSE Some(to, i - 1)

\* partial_min(lhs, rhs): lp, rp the two references and lv, rv what they read
partial_min(t, lp, lv, rp, rv) ==
    LET ord == T_partial_cmp(t, lv, rv)
    IN  IF ord = "None" THEN None
        ELSE IF ord = "Greater" THEN rp ELSE lp

\* get_min() of the container with pointer p and elements s: the values a
\* caller can observe through the returned Option<&T>; <<>> is absent,
\* <<v>> is present with value v
get_min_of(t, p, s) ==
    IF p.some THEN {<<v>> : v \in Deref(t, p, s)} ELSE {<<>>}

get_min == get_min_of(elemType, min, inner)

(* ----------------------------- constructors --------------------------- *)

\* all element sequences of length at most n
Seqs(t, n) == UNION {[1..k -> Values(t)] : k \in 0..n}

\* with_capacity(capacity): inline when capacity <= S, else a heap block
with_capacity(capacity) ==
    [inner |-> <<>>, cap |-> IF capacity > S THEN capacity ELSE S,
     min |-> None, op |-> "with_capacity"]

\* new() is Default::default(): an empty inline SmallVec
new ==
    [inner |-> <<>>, cap |-> S, min |-> None, op |-> "new"]

\* from_slice(slice): slice_min runs over the caller's slice, and
\* SmallVec::from_slice copies the values into the container's own storage
from_slice(t, slice) ==
    [inner |-> slice, cap |-> IF Len(slice) > S THEN Len(slice) ELSE S,
     min |-> slice_min(t, slice, "slice"), op |-> "from_slice"]

\* from_iter(iter): slice_min runs over the local `inner`, which is then
\* moved into the returned struct; inline elements move with it (unless the
\* build elides the move), heap elements stay where they are
from_iter(t, iter) ==
    LET c == IF Len(iter) > S THEN next_power_of_two(Len(iter)) ELSE S
    IN  {[inner |-> iter, cap |-> c,
          min |-> Left(slice_min(t, iter, "inner"), moved), op |-> "from_iter"] :
            moved \in IF spilled(c) THEN {FALSE} ELSE BOOLEAN}

\* every container a constructor returns for sequences of length <= n
Built(t, n) ==
    {new} \cup {with_capacity(k) : k \in 0..n}
          \cup {from_slice(t, s) : s \in Seqs(t, n)}
          \cup (IF t \in EqTypes THEN UNION {from_iter(t, s) : s \in Seqs(t, n)} ELSE {})

(* ------------------------------- push --------------------------------- *)

\* the last call: which operation, whether the index it was given
\* (modify_single) was >= the length, whether it returned or panicked, and
\* whether it invoked the callback
CallAt(op, out_of_range, ret, called) ==
    [op |-> op, out_of_range |-> out_of_range, ret |-> ret, called |-> called]

Call(op, ret, called) == CallAt(op, FALSE, ret, called)

\* a push that compares even when the buffer was empty
push_min_always_compares(t, old, pushed, value, m, n) ==
    IF old.some /\ T_lt(t, value, m) THEN pushed ELSE old

\* a push that adopts the pushed value whenever no minimum is cached
push_min_adopts_when_absent(t, old, pushed, value, m, n) ==
    IF (n = 1) \/ ~old.some \/ T_lt(t, value, m) THEN pushed ELSE old

\* lines 113-115: the new `min` after the append.  old is the pointer held
\* before, pushed the pointer to the appended slot, m what `min` reads
\* through old, n the length after the append
push_min(t, old, pushed, value, m, n) ==
    IF (n = 1) \/ (old.some /\ T_lt(t, value, m)) THEN pushed ELSE old

push(value) ==
    /\ Len(inner) < MaxLen
    /\ \E g \in GrowOnPush(cap, Len(inner)) :
         LET grown == Append(inner, value)
             old == Left(min, g.moved)
             pushed == Some("inner", Len(inner))
         IN  /\ inner' = grown
             /\ cap' = g.cap
             /\ min' \in {push_min(elemType, old, pushed, value, m, Len(grown)) :
                            m \in IF old.some /\ Len(grown) > 1
                                  THEN Deref(elemType, old, grown) ELSE {value}}
    /\ call' = Call("push", "ok", FALSE)
    /\ UNCHANGED <<elemType, other, res>>

(* ------------------------------ modify -------------------------------- *)

\* The callbacks handed to modify: each gets &mut SmallVec and may append,
\* remove, reorder or alter elements or make the storage move; it returns,
\* or panics after having done so.
Funcs(t) ==
    {[kind |-> k, i |-> 0, v |-> 0, panics |-> p] :
        k \in {"clear", "pop", "reverse", "shrink_to_fit"}, p \in BOOLEAN}
    \cup {[kind |-> "push", i |-> 0, v |-> v, panics |-> p] :
        v \in Values(t), p \in BOOLEAN}
    \cup {[kind |-> "set", i |-> i, v |-> v, panics |-> p] :
        i \in 0..(MaxLen - 1), v \in Values(t), p \in BOOLEAN}

Reverse(s) == [k \in 1..Len(s) |-> s[Len(s) + 1 - k]]

\* what func leaves of a SmallVec holding s with capacity c
func_call(func, s, c) ==
    CASE func.kind = "clear" ->
           {[inner |-> <<>>, cap |-> c, moved |-> FALSE]}
      [] func.kind = "pop" ->
           {[inner |-> SubSeq(s, 1, Len(s) - 1), cap |-> c, moved |-> FALSE] :
                x \in {1} \cap DOMAIN s}
      [] func.kind = "reverse" ->
           {[inner |-> Reverse(s), cap |-> c, moved |-> FALSE] : x \in {2} \cap DOMAIN s}
      [] func.kind = "push" ->
           IF Len(s) < MaxLen
           THEN {[inner |-> Append(s, func.v), cap |-> g.cap, moved |-> g.moved] :
                    g \in GrowOnPush(c, Len(s))}
           ELSE {}
      [] func.kind = "set" ->
           {[inner |-> [s EXCEPT ![func.i + 1] = func.v], cap |-> c, moved |-> FALSE] :
                x \in {func.i + 1} \cap DOMAIN s}
      [] func.kind = "shrink_to_fit" ->
           IF ~spilled(c) \/ Len(s) = c THEN {}
           ELSE IF Len(s) <= S
           THEN {[inner |-> s, cap |-> S, moved |-> TRUE]}
           ELSE {[inner |-> s, cap |-> Len(s), moved |-> m] : m \in BOOLEAN}

\* a modify that recomputes only when no minimum is cached
modify_min_keeps_present(t, old, s, panics) ==
    IF panics \/ old.some THEN old ELSE slice_min(t, s, "inner")

\* line 89, reached only when func returns; old is the pointer held before
modify_min(t, old, s, panics) == IF panics THEN old ELSE slice_min(t, s, "inner")

modify(func) ==
    /\ \E r \in func_call(func, inner, cap) :
         /\ inner' = r.inner
         /\ cap' = r.cap
         /\ min' = modify_min(elemType, Left(min, r.moved), r.inner, func.panics)
    /\ call' = Call("modify", IF func.panics THEN "panic" ELSE "ok", TRUE)
    /\ UNCHANGED <<elemType, other, res>>

(* ---------------------------- modify_single --------------------------- *)

\* The callbacks handed to modify_single: each gets &mut T and leaves some
\* value v in it; it returns, or panics after having written.
SingleFuncs(t) == [v : Values(t), panics : BOOLEAN]

\* lines 99-103: the new `min`, was_min decided at line 96
single_min(t, old, was_min, mutated, index) ==
    IF was_min THEN {slice_min(t, mutated, "inner")}
    ELSE {partial_min(t, old, m, Some("inner", index), mutated[index + 1]) :
             m \in Deref(t, old, mutated)}

\* a modify_single that returns silently when it cannot proceed
modify_single_unchecked(index, func) ==
    /\ IF ~min.some \/ index >= Len(inner)
       THEN /\ call' = CallAt("modify_single", index >= Len(inner), "ok", FALSE)
            /\ UNCHANGED <<inner, min>>
       ELSE LET mutated == [inner EXCEPT ![index + 1] = func.v]
            IN  /\ inner' = mutated
                /\ call' = CallAt("modify_single", index >= Len(inner),
                                  IF func.panics THEN "panic" ELSE "ok", TRUE)
                /\ min' \in IF func.panics THEN {min}
                            ELSE UNION {single_min(elemType, min,
                                                   T_eq(elemType, m, inner[index + 1]),
                                                   mutated, index) :
                                           m \in Deref(elemType, min, inner)}
    /\ UNCHANGED <<elemType, cap, other, res>>

modify_single(index, func) ==
    /\ IF ~min.some
       THEN \* line 95: get_min().unwrap() panics
            /\ call' = CallAt("modify_single", index >= Len(inner), "panic", FALSE)
            /\ UNCHANGED <<inner, min>>
       ELSE IF index >= Len(inner)
       THEN \* line 96: self.inner[index] panics
            /\ call' = CallAt("modify_single", index >= Len(inner), "panic", FALSE)
            /\ UNCHANGED <<inner, min>>
       ELSE LET mutated == [inner EXCEPT ![index + 1] = func.v]
            IN  /\ inner' = mutated
                /\ call' = CallAt("modify_single", index >= Len(inner),
                                  IF func.panics THEN "panic" ELSE "ok", TRUE)
                /\ min' \in IF func.panics THEN {min}
                            ELSE UNION {single_min(elemType, min,
                                                   T_eq(elemType, m, inner[index + 1]),
                                                   mutated, index) :
                                           m \in Deref(elemType, min, inner)}
    /\ UNCHANGED <<elemType, cap, other, res>>

(* ------------------------- moving the container ----------------------- *)

\* The owner moves the MinSmallVec value (a bitwise copy of both fields):
\* inline elements move with it, heap elements stay where they are.
Move ==
    /\ min' = Left(min, ~spilled(cap))
    /\ call' = Call("move", "ok", FALSE)
    /\ UNCHANGED <<elemType, inner, cap, other, res>>

(* ----------------------- comparing two containers --------------------- *)

\* an equality that needs both minimums to be present
option_eq_zipped(t, a, b) == a # <<>> /\ b # <<>> /\ T_eq(t, a[1], b[1])

\* Option<&T>::eq: both absent, or both present with equal values
option_eq(t, a, b) ==
    IF a = <<>> \/ b = <<>> THEN a = <<>> /\ b = <<>> ELSE T_eq(t, a[1], b[1])

\* the derived ordering of Option: absent is less than present
option_partial_cmp_derived(t, a, b) ==
    IF a = <<>> /\ b = <<>> THEN "Equal"
    ELSE IF a = <<>> THEN "Less"
    ELSE IF b = <<>> THEN "Greater"
    ELSE T_partial_cmp(t, a[1], b[1])

\* zip(..).and_then(partial_cmp) of two Option<&T>
option_partial_cmp(t, a, b) ==
    IF a = <<>> \/ b = <<>> THEN "None" ELSE T_partial_cmp(t, a[1], b[1])

NoRes == [a |-> <<>>, b |-> <<>>, out |-> "none yet"]

\* <MinSmallVec as PartialEq>::eq(self, other)
eq ==
    /\ \E a \in get_min, b \in get_min_of(elemType, other.min, other.inner) :
         res' = [a |-> a, b |-> b, out |-> IF option_eq(elemType, a, b) THEN "true" ELSE "false"]
    /\ call' = Call("eq", "ok", FALSE)
    /\ UNCHANGED <<elemType, inner, cap, min, other>>

\* <MinSmallVec as PartialOrd>::partial_cmp(self, other)
partial_cmp ==
    /\ \E a \in get_min, b \in get_min_of(elemType, other.min, other.inner) :
         res' = [a |-> a, b |-> b, out |-> option_partial_cmp(elemType, a, b)]
    /\ call' = Call("partial_cmp", "ok", FALSE)
    /\ UNCHANGED <<elemType, inner, cap, min, other>>

(* ---------------------------- specifications -------------------------- *)

\* longest sequences the two compared containers are built from
MaxCmpLen == 2

IsBuilt(b) ==
    /\ inner = b.inner
    /\ cap = b.cap
    /\ min = b.min
    /\ call = Call(b.op, "ok", FALSE)

\* the state after any constructor, for any element type
Init ==
    /\ elemType \in ElemTypes
    /\ \E b \in Built(elemType, MaxLen) : IsBuilt(b)
    /\ other = new
    /\ res = NoRes

Next ==
    \/ \E value \in Values(elemType) : push(value)
    \/ \E func \in Funcs(elemType) : modify(func)
    \/ \E index \in 0..MaxLen, func \in SingleFuncs(elemType) : modify_single(index, func)
    \/ Move

Spec == Init /\ [][Next]_vars

\* an empty container and nothing but pushes
InitEmpty == Init /\ call.op \in {"new", "with_capacity"}

NextPush == \E value \in Values(elemType) : push(value)

SpecPush == InitEmpty /\ [][NextPush]_vars

\* an empty container, pushes and modify_single with callbacks that return
NextIncr ==
    \/ \E value \in Values(elemType) : push(value)
    \/ \E index \in 0..MaxLen, v \in Values(elemType) :
          modify_single(index, [v |-> v, panics |-> FALSE])

SpecIncr == InitEmpty /\ [][NextIncr]_vars

\* two containers of an Eq element type, compared
InitCmp ==
    /\ elemType \in EqTypes
    /\ \E b \in Built(elemType, MaxCmpLen) : IsBuilt(b)
    /\ other \in Built(elemType, MaxCmpLen)
    /\ res = NoRes

NextCmp ==
    \/ eq
    \/ partial_cmp

SpecCmp == InitCmp /\ [][NextCmp]_vars

(* ------------------------------- claims ------------------------------- *)

\* what get_min() would return right after a full recomputation
Recomputed == get_min_of(elemType, slice_min(elemType, inner, "inner"), inner)

\* C1: with totally ordered elements, a non-empty buffer has a present
\* minimum that is an element stored in the buffer and that no element of
\* the buffer is strictly less than.
C1_MinIsLeast ==
    (elemType = "i32" /\ inner # <<>>) =>
        /\ PointsInto(min, inner)
        /\ \A j \in DOMAIN inner : ~T_lt(elemType, inner[j], inner[min.off + 1])

\* C2: after any sequence of pushes from an empty buffer, get_min() is what
\* slice_min over the same sequence gives, for every element type.
C2_PushAgreesWithSliceMin == get_min = Recomputed

\* C3: with totally ordered elements, the minimum after modify_single(i, f)
\* is the minimum modify leaves when it applies f to element i, which is
\* slice_min over the resulting sequence.
C3_SingleAgreesWithModify ==
    (elemType = "i32" /\ call.op = "modify_single" /\ call.ret = "ok") =>
        get_min = Recomputed

\* C4: after every push, cached_min when present designates a slot of the
\* current backing storage.
C4_PushLeavesLivePointer ==
    (call.op = "push" /\ min.some) => PointsInto(min, inner)

\* C5: whenever the element sequence is empty, cached_min is absent and
\* get_min() returns absent.
C5_EmptyHasNoMin ==
    (inner = <<>>) => (~min.some /\ get_min = {<<>>})


\* the value pointer p designates in the storage holding s
At(p, s) == s[p.off + 1]

\* C6: a == b holds iff both minimums are absent or both are present with
\* equal values, whatever the lengths, contents and element order are.
C6_EqByMinimums ==
    (call.op = "eq") =>
        /\ (res.out = "true") <=>
              \/ res.a = <<>> /\ res.b = <<>>
              \/ res.a # <<>> /\ res.b # <<>> /\ res.a[1] = res.b[1]
        /\ (PointsInto(min, inner) /\ PointsInto(other.min, other.inner)) =>
              ((res.out = "true") <=> (At(min, inner) = At(other.min, other.inner)))

\* two buffers of different lengths, contents and order, both with minimum
\* 0, compared equal
C6_Witness ==
    /\ call.op = "eq"
    /\ elemType = "i32"
    /\ inner = <<1, 0>> /\ PointsInto(min, inner)
    /\ other.inner = <<0>> /\ PointsInto(other.min, other.inner)
    /\ res.out = "true"

\* C7: partial_cmp of two buffers is incomparable whenever a minimum is
\* absent, and is otherwise the comparison of the two minimum values.
C7_PartialCmpByMinimums ==
    (call.op = "partial_cmp") =>
        /\ (res.a = <<>> \/ res.b = <<>>) => res.out = "None"
        /\ (res.a # <<>> /\ res.b # <<>>) =>
              res.out = T_partial_cmp(elemType, res.a[1], res.b[1])
        /\ (elemType = "i32" /\ PointsInto(min, inner)
                /\ PointsInto(other.min, other.inner)) =>
              /\ (res.out = "Less") <=> (At(min, inner) < At(other.min, other.inner))
              /\ (res.out = "Equal") <=> (At(min, inner) = At(other.min, other.inner))
              /\ (res.out = "Greater") <=> (At(min, inner) > At(other.min, other.inner))

\* two empty buffers compared: incomparable
C7_Witness ==
    /\ call.op = "partial_cmp"
    /\ inner = <<>> /\ other.inner = <<>>
    /\ res.a = <<>> /\ res.b = <<>>
    /\ res.out = "None"

\* the last call was a constructor or a modify that ran slice_min
RanSliceMin ==
    \/ call.op \in {"from_slice", "from_iter"}
    \/ call.op = "modify" /\ call.ret = "ok"

\* some element s[k] is incomparable with the least of the elements before it
MeetsUndefined(t, s) ==
    \E k \in 2..Len(s) : \E j \in 1..(k - 1) :
        /\ \A i \in (1..(k - 1)) \ {j} :
              T_partial_cmp(t, s[j], s[i]) \in {"Less", "Equal"}
        /\ T_partial_cmp(t, s[j], s[k]) = "None"

\* C8: with partially ordered elements, a full recomputation that meets an
\* undefined comparison between the running candidate and a later element
\* leaves the minimum absent on a non-empty buffer; a one-element buffer
\* always gets a present minimum.
C8_UndefinedAborts ==
    (elemType \in {"f64", "div"} /\ RanSliceMin) =>
        /\ MeetsUndefined(elemType, inner) => (~min.some /\ get_min = {<<>>})
        /\ Len(inner) = 1 => min.some

\* 2 and 3 are incomparable, the later 2 is comparable with the candidate 2
C8_Witness ==
    /\ elemType = "div"
    /\ call.op = "modify" /\ call.ret = "ok"
    /\ inner = <<2, 3, 2>>
    /\ ~min.some

\* C9: a push onto an empty buffer makes the pushed value the minimum.
C9_PushOnEmpty ==
    (call.op = "push" /\ Len(inner) = 1) => get_min = {<<inner[1]>>}

\* NaN, incomparable with itself, pushed onto an empty buffer
C9_Witness ==
    /\ elemType = "f64"
    /\ call.op = "push"
    /\ inner = <<NaN>>
    /\ get_min = {<<NaN>>}

\* C10: modify_single on an empty buffer or with an index >= the length
\* panics without invoking the callback and leaves the element sequence and
\* cached_min unchanged.
C10_SingleFailsFast ==
    [][(call'.op = "modify_single" /\ call'.out_of_range) =>
          /\ call'.ret = "panic"
          /\ ~call'.called
          /\ inner' = inner
          /\ min' = min]_vars

\* an out-of-range index on a non-empty buffer with a present minimum
C10_Witness ==
    /\ call.op = "modify_single"
    /\ inner # <<>> /\ min.some
    /\ call.out_of_range
    /\ call.ret = "panic"
    /\ ~call.called

\* C11: after modify returns normally, cached_min is slice_min over the
\* element sequence as the callback left it: it designates a slot of the
\* current storage, and for totally ordered elements the first of the least
\* elements.
C11_ModifyRecomputes ==
    (call.op = "modify" /\ call.ret = "ok") =>
        /\ min = slice_min(elemType, inner, "inner")
        /\ min.some => PointsInto(min, inner)
        /\ (elemType = "i32" /\ inner # <<>>) =>
              /\ min.some
              /\ \A j \in DOMAIN inner : At(min, inner) <= inner[j]
              /\ \A j \in 1..min.off : At(min, inner) < inner[j]

\* a modify whose callback left 2, 0, 1 in a storage it made grow
C11_Witness ==
    /\ elemType = "i32"
    /\ call.op = "modify" /\ call.ret = "ok"
    /\ inner = <<2, 0, 1>>
    /\ min = Some("inner", 1)

\* C12: after from_slice, cached_min when present designates an element of
\* the buffer's own element storage, not one of the caller's slice.
C12_FromSlicePointsIntoCopy ==
    (call.op = "from_slice" /\ min.some) => PointsInto(min, inner)

\* C13: cached_min established by from_iter still designates a slot of the
\* current element storage once the container has been returned or moved,
\* with inline elements as well as with spilled ones.
C13_FromIterSurvivesMove ==
    (call.op \in {"from_iter", "move"} /\ min.some /\ min.to # "slice") =>
        PointsInto(min, inner)

\* C14: with partially ordered elements, a minimum that is absent on a
\* non-empty buffer stays absent across every push; only a modify that
\* returns makes it present again.
C14_AbsentStaysAbsent ==
    [][(elemType \in {"f64", "div"} /\ inner # <<>> /\ ~min.some) =>
          /\ call'.op = "push" => ~min'.some
          /\ min'.some => (call'.op = "modify" /\ call'.ret = "ok")]_vars

\* three elements, the last two pushed, and still no minimum
C14_Witness ==
    /\ elemType = "f64"
    /\ call.op = "push"
    /\ inner = <<0, NaN, 0>>
    /\ ~min.some

\* C15: when the function given to modify panics, the cached minimum is not
\* recomputed, and after the unwinding it still describes the buffer as the
\* function left it: it is what a recomputation over the buffer would give,
\* and it is absent when the buffer is empty.
C15_PanicKeepsMinValid ==
    (call.op = "modify" /\ call.ret = "panic") =>
        /\ min = slice_min(elemType, inner, "inner")
        /\ inner = <<>> => ~min.some

\* C16: with partially ordered elements, a push on a buffer whose minimum is
\* present and designates a stored element makes the pushed element the
\* minimum iff the pushed value is strictly less than that element; when
\* it is greater, equal or incomparable the minimum stays present and
\* designates the same element as before.
C16_PushSingleComparison ==
    [][(elemType \in {"f64", "div"} /\ call'.op = "push" /\ PointsInto(min, inner)) =>
          IF T_lt(elemType, inner'[Len(inner')], At(min, inner))
          THEN min' = Some("inner", Len(inner))
          ELSE PointsInto(min', inner') /\ min'.off = min.off]_vars

\* C17: with totally ordered elements, right after a full recomputation the
\* minimum is absent when the sequence is empty, and otherwise it designates
\* the lowest-index element among those holding the least value.
C17_SliceMinTakesFirstLeast ==
    (elemType = "i32" /\ RanSliceMin /\ (min.some => min.to # "freed")) =>
        /\ min.some <=> inner # <<>>
        /\ min.some =>
              /\ min.off < Len(inner)
              /\ \A j \in DOMAIN inner : At(min, inner) <= inner[j]
              /\ \A j \in 1..min.off : At(min, inner) < inner[j]

\* the least value 0 occurs twice and the earlier occurrence is designated
C17_Witness ==
    /\ elemType = "i32"
    /\ call.op = "modify" /\ call.ret = "ok"
    /\ inner = <<1, 0, 0>>
    /\ min = Some("inner", 1)

\* C18: with totally ordered elements, cached_min designates the position a
\* full recomputation designates, the lowest index among the elements equal
\* to the least value; in particular a modify_single that starts where this
\* holds ends where it holds, also when it takes its O(1) path and the new
\* value ties with the minimum at a lower index.
C18_SingleKeepsFirstLeast ==
    [][(/\ elemType = "i32"
        /\ min = slice_min(elemType, inner, "inner")
        /\ call'.op = "modify_single" /\ call'.ret = "ok") =>
          min' = slice_min(elemType, inner', "inner")]_vars

\* C19: on a non-empty buffer and with an index in range, modify_single
\* finds a current minimum and reaches the callback, for every element
\* type, also when the minimum had become absent through an undefined
\* comparison.
C19_SingleFindsMinimum ==
    (call.op = "modify_single" /\ inner # <<>> /\ ~call.out_of_range) => call.called

====
